---- MODULE Spec2Model ----
(***************************************************************************)
(* State-machine model of hpcd's SSH SessionManager                        *)
(* (src/hpcd/src/ssh/mod.rs): ensure_connected, do_keyboard_interactive,   *)
(* exec_whitelisted and the keep-alive task, run by concurrent calls on    *)
(* one SessionManager.  Async functions are split at their await points.   *)
(***************************************************************************)
EXTENDS Integers, Sequences, FiniteSets, TLC

\* ------------------------------------------------------------ bounds
NumCalls == 2       \* concurrent exec_whitelisted calls on the session
MaxConn == 2        \* transport connects that succeed over the session's life
MaxMsgs == 2        \* channel messages the remote sends before Close / end
MaxRounds == 2      \* answers a client sends on one call (challenge rounds)
MaxPrompts == 2     \* prompts in one InfoRequest, responses in one MfaAnswer
EvtCapacity == 1    \* events the channel behind evt_tx holds

Calls == 1..NumCalls
Conns == 1..MaxConn

\* ------------------------------------------------------------ tasks and the lock
NoTask == 0
\* the keep-alive task spawned for connection k (tokio::spawn, line 133)
KA(k) == NumCalls + k

\* ------------------------------------------------------------ whitelist
\* labels and commands are strings, modelled as sequences of characters
LS == <<"l", "s">>
UNAME == <<"u", "n", "a", "m", "e", " ", "-", "a">>
W == <<"w">>
NotAllowed == <<>>

\* inputs: the three entries, a label that contains an entry, a proper
\* prefix of an entry
LsRm == <<"l", "s", ";", " ", "r", "m", " ", "-", "r", "f", " ", "/">>
Labels == {LS, UNAME, W, LsRm, <<"u">>}

WhitelistEntries == {LS, UNAME, W}

IsPrefix(p, s) == Len(p) <= Len(s) /\ SubSeq(s, 1, Len(p)) = p

\* a match that accepts any label beginning with an entry and runs the entry
LookupPrefix(command) ==
    IF IsPrefix(LS, command) THEN LS
    ELSE IF IsPrefix(UNAME, command) THEN UNAME
    ELSE IF IsPrefix(W, command) THEN W
    ELSE NotAllowed

\* a match whose default arm passes the label through
LookupPassThrough(command) ==
    IF command = LsRm THEN command
    ELSE IF command \in WhitelistEntries THEN command
    ELSE NotAllowed

\* the match of exec_whitelisted: the literal command, or NotAllowed
Lookup(command) ==
    IF command = LS THEN LS
    ELSE IF command = UNAME THEN UNAME
    ELSE IF command = W THEN W
    ELSE NotAllowed

\* ------------------------------------------------------------ exit status
\* exit_status is a u32 cast to i32; the model keeps the cast at a width of
\* StatusBits bits (TLC's integers do not reach 2^32)
StatusBits == 8
StatusHalf == 2 ^ (StatusBits - 1)
StatusMod == 2 ^ StatusBits
\* exit statuses the remote may report: zero, a small one, the largest
ExitStatuses == {0, 3, StatusMod - 1}
\* a cast that keeps the unsigned value
AsI32Unsigned(u) == u

\* `exit_status as i32`
AsI32(u) == IF u >= StatusHalf THEN u - StatusMod ELSE u

VARIABLES
    identity,       \* params.identity_path is Some
    handle,         \* SessionManager.handle: 0 = None, k = Some(connection k)
    connClosed,     \* connClosed[k]: connection k's is_closed()
    nconn,          \* connections established so far
    lockHolder,     \* task holding the handle mutex, or NoTask
    lockQueue,      \* tasks waiting on the handle mutex, in arrival order
    keepalive_task_handle,  \* 0 = None, k = JoinHandle of KA(k)
    taskLock,       \* task holding the keepalive_task_handle mutex, or NoTask
    kaPc,           \* kaPc[k]: position of keep-alive task k
    pc,             \* pc[c]: position of call c
    label,          \* the `command` argument of call c
    cmd,            \* the matched literal `cmd` of call c
    conn,           \* the local `handle` of ensure_connected in call c
    net,            \* network operations call c has performed
    ki,             \* the local `ki` of do_keyboard_interactive
    kiFirst,        \* what the server answered to the keyboard-interactive start
    events,         \* events call c sent on evt_tx, in order
    mfa_rx,         \* answers queued on the inbound channel of call c
    mfaClosed,      \* all senders of mfa_rx dropped
    nsent,          \* answers the client has sent on call c
    submitted,      \* answers call c passed to authenticate_keyboard_interactive_respond
    execSent,       \* the command call c sent in its exec request
    nmsg,           \* channel messages call c has read
    chan,           \* execution channel of call c: "none", "open", "closed", "dropped"
    result,         \* what exec_whitelisted returned: "none", "Ok" or an error
    pubkey,         \* what authenticate_publickey returned to call c
    arrival,        \* the calls that asked for the handle lock at line 70, in order
    cli,            \* the CLI process: its command, inbound stream and exit code
    dns,            \* a lookup_first_addr call: its arguments, resolver and result
    managers,       \* the SessionManagers of distinct hosts and their mutexes
    evt_rx,         \* the receiving end of evt_tx of call c: its holder and what it has read
    chanLog,        \* the messages chan.wait() has yielded to call c, in order
    cfg             \* a call of config::load: its inputs, position and result

sessVars == <<handle, connClosed, nconn, keepalive_task_handle, kaPc>>
lockVars == <<lockHolder, lockQueue>>
clientVars == <<mfa_rx, mfaClosed, nsent>>
kiVars == <<ki, kiFirst, submitted>>
execVars == <<execSent, nmsg, chan>>
argVars == <<identity, label, cmd>>
recVars == <<pubkey, arrival>>
pumpVars == <<evt_rx, chanLog>>
toolVars == <<cli, dns, managers, cfg>>

\* everything of the one SessionManager and its calls
sessionVars == <<sessVars, lockVars, taskLock, clientVars, kiVars, execVars, argVars, recVars, pumpVars,
                 pc, conn, net, events, result>>

vars == <<sessionVars, toolVars>>

\* authenticate_publickey has not been called
NoPubkey == [t |-> "none", partial |-> FALSE, kiListed |-> FALSE]

\* the CLI, the resolver and the managers of other hosts are not in use
NoCli == [pc |-> "none"]
NoDns == [pc |-> "none"]
NoManagers == [pc |-> "none"]
NoCfg == [pc |-> "none"]
ToolsIdle == cli = NoCli /\ dns = NoDns /\ managers = NoManagers /\ cfg = NoCfg

\* the caller of a call, as the holder of the receiving end of evt_tx:
\* "prompt" takes every event as it is sent, "reading" takes them one at a
\* time at its own pace, "gone" has dropped the receiver
Caller(mode) == [mode |-> mode, read |-> 0, at |-> "none"]

\* no call has arrived; every caller is of the given kind
CallsIdleAs(mode) ==
    /\ evt_rx = [c \in Calls |-> Caller(mode)]
    /\ chanLog = [c \in Calls |-> <<>>]
    /\ pc = [c \in Calls |-> "idle"]
    /\ label = [c \in Calls |-> NotAllowed]
    /\ cmd = [c \in Calls |-> NotAllowed]
    /\ conn = [c \in Calls |-> 0]
    /\ net = [c \in Calls |-> {}]
    /\ ki = [c \in Calls |-> [t |-> "none", n |-> 0]]
    /\ kiFirst = [c \in Calls |-> "none"]
    /\ events = [c \in Calls |-> <<>>]
    /\ mfa_rx = [c \in Calls |-> <<>>]
    /\ mfaClosed = [c \in Calls |-> FALSE]
    /\ nsent = [c \in Calls |-> 0]
    /\ submitted = [c \in Calls |-> <<>>]
    /\ execSent = [c \in Calls |-> NotAllowed]
    /\ nmsg = [c \in Calls |-> 0]
    /\ chan = [c \in Calls |-> "none"]
    /\ result = [c \in Calls |-> "none"]
    /\ pubkey = [c \in Calls |-> NoPubkey]
    /\ arrival = <<>>

CallsIdle == CallsIdleAs("prompt")

\* SessionManager::new: no handle, no keep-alive task
Init ==
    /\ identity \in BOOLEAN
    /\ handle = 0
    /\ connClosed = [k \in Conns |-> FALSE]
    /\ nconn = 0
    /\ lockHolder = NoTask
    /\ lockQueue = <<>>
    /\ taskLock = NoTask
    /\ keepalive_task_handle = 0
    /\ kaPc = [k \in Conns |-> "none"]
    /\ CallsIdle
    /\ ToolsIdle

\* a session as earlier calls leave it: never connected, or holding
\* connection 1 with its keep-alive task, the connection live or closed
InitUsedAs(mode) ==
    /\ identity \in BOOLEAN
    /\ \E used \in BOOLEAN, closed \in BOOLEAN :
          /\ ~used => ~closed
          /\ handle = IF used THEN 1 ELSE 0
          /\ nconn = IF used THEN 1 ELSE 0
          /\ keepalive_task_handle = IF used THEN 1 ELSE 0
          /\ connClosed = [k \in Conns |-> k = 1 /\ closed]
          /\ kaPc = [k \in Conns |-> IF k = 1 /\ used THEN "tick" ELSE "none"]
    /\ lockHolder = NoTask
    /\ lockQueue = <<>>
    /\ taskLock = NoTask
    /\ CallsIdleAs(mode)
    /\ ToolsIdle

InitUsed == InitUsedAs("prompt")

\* ------------------------------------------------------------ the handle mutex
\* `self.handle.lock().await`: tokio's Mutex grants the lock in arrival order
LockRequest(t) ==
    IF lockHolder = NoTask
    THEN lockHolder' = t /\ lockQueue' = lockQueue
    ELSE lockHolder' = lockHolder /\ lockQueue' = Append(lockQueue, t)

\* a release that wakes no waiter
LockReleaseNoWake == lockHolder' = NoTask /\ lockQueue' = lockQueue

\* the guard is dropped: the lock passes to the first waiter
LockRelease ==
    IF lockQueue = <<>>
    THEN lockHolder' = NoTask /\ lockQueue' = lockQueue
    ELSE lockHolder' = Head(lockQueue) /\ lockQueue' = Tail(lockQueue)

\* a task that goes on without waiting for the guard
HoldsLockUnchecked(t) == TRUE

\* lock().await has returned the guard to task t
HoldsLock(t) == lockHolder = t

\* ------------------------------------------------------------ helpers
Event(t, v) == [t |-> t, v |-> v]

\* events of call c that are in the channel, sent and not yet read
Buffered(c) == Len(events[c]) - evt_rx[c].read

\* send().await completes: the channel has room, or its receiver is gone and
\* the send fails at once
CanSend(c) == evt_rx[c].mode \in {"prompt", "gone"} \/ Buffered(c) < EvtCapacity

\* a send that never completes once the receiver is gone
SendWhileOpen(c, e) ==
    /\ evt_rx[c].mode = "prompt" \/ (evt_rx[c].mode = "reading" /\ Buffered(c) < EvtCapacity)
    /\ events' = [events EXCEPT ![c] = Append(@, e)]

\* a try_send: the event is dropped when the channel is full
SendOrDrop(c, e) ==
    events' = [events EXCEPT ![c] = IF CanSend(c) THEN Append(@, e) ELSE @]

\* `let _ = evt_tx.send(Ok(StreamEvent {..})).await`: waits while the channel
\* is full, and its result is ignored
Send(c, e) ==
    /\ CanSend(c)
    /\ events' = [events EXCEPT ![c] = Append(@, e)]

\* exec_whitelisted returns Err(e)
Fail(c, e) ==
    /\ pc' = [pc EXCEPT ![c] = "ret"]
    /\ result' = [result EXCEPT ![c] = e]

Goto(c, p) == pc' = [pc EXCEPT ![c] = p]

Net(c, op) == net' = [net EXCEPT ![c] = @ \cup {op}]

\* ------------------------------------------------------------ exec_whitelisted: whitelist
\* a call arrives with label l: the whitelist match (lines 239-244), then
\* ensure_connected asks for the handle lock (line 70)
Start(c, l) ==
    /\ pc[c] = "idle"
    /\ label' = [label EXCEPT ![c] = l]
    /\ IF Lookup(l) = NotAllowed
       THEN /\ Fail(c, "NotAllowed")
            /\ UNCHANGED <<cmd, lockVars, arrival>>
       ELSE /\ cmd' = [cmd EXCEPT ![c] = Lookup(l)]
            /\ arrival' = Append(arrival, c)
            /\ Goto(c, "ec_check")
            /\ result' = result
            /\ LockRequest(c)
    /\ UNCHANGED <<sessVars, clientVars, kiVars, execVars, identity, conn, net, events,
                   pubkey, pumpVars, taskLock, toolVars>>

\* ------------------------------------------------------------ ensure_connected
\* a check that reconnects only when no handle is stored
NeedsConnectNoneOnly == handle = 0

\* `needs_connect` (lines 73-77)
NeedsConnect == handle = 0 \/ connClosed[handle]

\* the lock is held: needs_connect is computed; either the connect is
\* started or ensure_connected returns Ok at once and drops its guard
EnsureCheck(c) ==
    /\ pc[c] = "ec_check"
    /\ HoldsLock(c)
    /\ IF NeedsConnect
       THEN /\ Goto(c, "ec_connecting")
            /\ Net(c, "connect")
            /\ UNCHANGED lockVars
       ELSE /\ Goto(c, "gap")
            /\ net' = net
            /\ LockRelease
    /\ UNCHANGED <<sessVars, clientVars, kiVars, execVars, argVars, recVars, pumpVars, taskLock, toolVars, conn, events, result>>

\* russh::client::connect fails: "SSH connect failed"
ConnectFail(c) ==
    /\ pc[c] = "ec_connecting"
    /\ Fail(c, "Connect")
    /\ LockRelease
    /\ UNCHANGED <<sessVars, clientVars, kiVars, execVars, argVars, recVars, pumpVars, taskLock, toolVars, conn, net, events>>

\* connect succeeds; with an identity path the key is loaded (keyOk) and
\* public-key authentication is started, without one the keyboard-interactive
\* start is sent
ConnectOk(c, keyOk) ==
    /\ pc[c] = "ec_connecting"
    /\ nconn < MaxConn
    /\ nconn' = nconn + 1
    /\ conn' = [conn EXCEPT ![c] = nconn + 1]
    /\ IF identity
       THEN IF keyOk
            THEN /\ Goto(c, "ec_pubkey")
                 /\ Net(c, "pubkey")
                 /\ UNCHANGED <<result, lockVars>>
            ELSE /\ Fail(c, "KeyLoad")
                 /\ LockRelease
                 /\ net' = net
       ELSE /\ keyOk
            /\ Goto(c, "ki_start")
            /\ Net(c, "ki")
            /\ UNCHANGED <<result, lockVars>>
    /\ UNCHANGED <<handle, connClosed, keepalive_task_handle, kaPc, clientVars, kiVars,
                   execVars, argVars, recVars, pumpVars, taskLock, toolVars, events>>

\* authenticated: the handle is stored and the keep-alive task spawned
\* (lines 128-150); the guard of the handle mutex stays alive
EnsureStore(c) ==
    /\ handle' = conn[c]
    /\ kaPc' = [kaPc EXCEPT ![conn[c]] = "tick"]
    /\ keepalive_task_handle' = keepalive_task_handle
    /\ UNCHANGED lockVars
    /\ Goto(c, "ec_spawned")

\* `self.keepalive_task_handle.lock().await` (line 152), asked for with the
\* handle mutex held
EnsureTaskLock(c) ==
    /\ pc[c] = "ec_spawned"
    /\ taskLock = NoTask
    /\ taskLock' = c
    /\ Goto(c, "ec_task")
    /\ UNCHANGED <<sessVars, lockVars, clientVars, kiVars, execVars, argVars, recVars, pumpVars,
                   toolVars, conn, net, events, result>>

\* a return that keeps the guard of the handle mutex until exec_whitelisted
\* returns
EnsureReturnKeepLock(c) ==
    /\ pc[c] = "ec_task"
    /\ taskLock = c
    /\ keepalive_task_handle' = conn[c]
    /\ taskLock' = NoTask
    /\ UNCHANGED lockVars
    /\ Goto(c, "gap")
    /\ UNCHANGED <<handle, connClosed, nconn, kaPc, clientVars, kiVars, execVars, argVars,
                   recVars, pumpVars, toolVars, conn, net, events, result>>

\* `*... = Some(jh)` (line 152): the JoinHandle is stored and the guard of
\* the second mutex dropped with the statement; ensure_connected returns Ok
\* (line 156) and the guard of the handle mutex is dropped
EnsureReturn(c) ==
    /\ pc[c] = "ec_task"
    /\ taskLock = c
    /\ keepalive_task_handle' = conn[c]
    /\ taskLock' = NoTask
    /\ LockRelease
    /\ Goto(c, "gap")
    /\ UNCHANGED <<handle, connClosed, nconn, kaPc, clientVars, kiVars, execVars, argVars,
                   recVars, pumpVars, toolVars, conn, net, events, result>>

\* an error return that has stored the new connection before it failed
EnsureErrStores(c, e) ==
    /\ Fail(c, e)
    /\ LockRelease
    /\ handle' = conn[c]
    /\ UNCHANGED <<keepalive_task_handle, kaPc>>

\* an error return that leaves the guard alive
EnsureErrKeepLock(c, e) ==
    /\ Fail(c, e)
    /\ UNCHANGED lockVars
    /\ UNCHANGED <<handle, keepalive_task_handle, kaPc>>

\* ensure_connected returns Err: the handle field, the keep-alive task and
\* its JoinHandle stay as they were
EnsureErr(c, e) ==
    /\ Fail(c, e)
    /\ LockRelease
    /\ UNCHANGED <<handle, keepalive_task_handle, kaPc>>

\* what authenticate_publickey may return
PubkeyResults ==
    {[t |-> "Err", partial |-> FALSE, kiListed |-> FALSE],
     [t |-> "Success", partial |-> FALSE, kiListed |-> FALSE]}
    \cup {[t |-> "Failure", partial |-> p, kiListed |-> k] : p \in BOOLEAN, k \in BOOLEAN}

\* a guard that falls back when either condition holds
FallsBackToKiEither(r) == r.partial \/ r.kiListed

\* the guard of the second match arm (lines 104-105)
FallsBackToKi(r) == r.partial /\ r.kiListed

PubkeyDone(c, r) ==
    /\ pc[c] = "ec_pubkey"
    /\ pubkey' = [pubkey EXCEPT ![c] = r]
    /\ IF r.t = "Success"
       THEN /\ EnsureStore(c)
            /\ UNCHANGED <<result, net>>
       ELSE IF r.t = "Failure" /\ FallsBackToKi(r)
       THEN /\ Goto(c, "ki_start")
            /\ Net(c, "ki")
            /\ UNCHANGED <<result, lockVars, handle, keepalive_task_handle, kaPc>>
       ELSE /\ EnsureErr(c, IF r.t = "Err" THEN "Pubkey" ELSE "AuthFailure")
            /\ net' = net
    /\ UNCHANGED <<connClosed, nconn, clientVars, kiVars, execVars, argVars, arrival, pumpVars, taskLock, toolVars,
                   conn, events>>

\* ------------------------------------------------------------ do_keyboard_interactive
\* what the server may answer to a keyboard-interactive start or respond
KiResponses ==
    {[t |-> "Success", n |-> 0], [t |-> "Failure", n |-> 0]}
    \cup {[t |-> "InfoRequest", n |-> n] : n \in 1..MaxPrompts}

\* a loop that keeps an InfoRequest to itself and waits for an answer
KiMatchSilent(c, r) ==
    /\ ki' = [ki EXCEPT ![c] = r]
    /\ IF r.t = "Success"
       THEN /\ EnsureStore(c)
            /\ UNCHANGED <<result, events>>
       ELSE IF r.t = "Failure"
       THEN /\ EnsureErr(c, "AuthFailed")
            /\ events' = events
       ELSE /\ Goto(c, "ki_recv")
            /\ UNCHANGED <<result, events, lockVars, handle, keepalive_task_handle, kaPc>>

\* one pass of the loop's match on `ki` (lines 176-224), up to the recv
KiMatch(c, r) ==
    /\ ki' = [ki EXCEPT ![c] = r]
    /\ IF r.t = "Success"
       THEN /\ EnsureStore(c)
            /\ UNCHANGED <<result, events>>
       ELSE IF r.t = "Failure"
       THEN /\ EnsureErr(c, "AuthFailed")
            /\ events' = events
       ELSE /\ Send(c, Event("Mfa", r.n))
            /\ Goto(c, "ki_recv")
            /\ UNCHANGED <<result, lockVars, handle, keepalive_task_handle, kaPc>>

\* authenticate_keyboard_interactive_start fails: "KI start failed"
KiStartFail(c) ==
    /\ pc[c] = "ki_start"
    /\ EnsureErr(c, "KiStart")
    /\ UNCHANGED <<connClosed, nconn, clientVars, kiVars, execVars, argVars, recVars, pumpVars, taskLock, toolVars, conn, net,
                   events>>

\* the server answers the start with r
KiStartDone(c, r) ==
    /\ pc[c] = "ki_start"
    /\ kiFirst' = [kiFirst EXCEPT ![c] = r.t]
    /\ KiMatch(c, r)
    /\ UNCHANGED <<connClosed, nconn, clientVars, submitted, execVars, argVars, recVars, pumpVars, taskLock, toolVars, conn, net>>

\* a recv that takes the newest queued answer instead of the oldest
RecvAnswerNewest(q) == q[Len(q)]

\* what mfa_rx.recv() takes from a non-empty queue
RecvAnswer(q) == Head(q)

\* `answers.responses` goes to the server as it is
Forwarded(answers, prompts) == answers.n

\* a recv that takes a closed, empty stream for an answer without responses
KiRecvLenient(c) ==
    /\ pc[c] = "ki_recv"
    /\ IF mfa_rx[c] # <<>>
       THEN /\ submitted' = [submitted EXCEPT ![c] =
                   Append(@, [id |-> RecvAnswer(mfa_rx[c]).id,
                              n |-> Forwarded(RecvAnswer(mfa_rx[c]), ki[c].n),
                              prompts |-> ki[c].n])]
            /\ mfa_rx' = [mfa_rx EXCEPT ![c] = Tail(@)]
       ELSE /\ mfaClosed[c]
            /\ submitted' = [submitted EXCEPT ![c] =
                   Append(@, [id |-> 0, n |-> 0, prompts |-> ki[c].n])]
            /\ mfa_rx' = mfa_rx
    /\ Goto(c, "ki_respond")
    /\ UNCHANGED <<sessVars, lockVars, mfaClosed, nsent, ki, kiFirst, execVars, argVars, recVars, pumpVars, taskLock, toolVars,
                   conn, net, events, result>>

\* mfa_rx.recv().await (lines 213-222): the oldest queued answer is taken and
\* passed to authenticate_keyboard_interactive_respond; on a closed, empty
\* stream recv gives None: "client disconnected during MFA"; on an open,
\* empty stream the call stays blocked
KiRecv(c) ==
    /\ pc[c] = "ki_recv"
    /\ IF mfa_rx[c] # <<>>
       THEN /\ submitted' = [submitted EXCEPT ![c] =
                   Append(@, [id |-> RecvAnswer(mfa_rx[c]).id,
                              n |-> Forwarded(RecvAnswer(mfa_rx[c]), ki[c].n),
                              prompts |-> ki[c].n])]
            /\ mfa_rx' = [mfa_rx EXCEPT ![c] = Tail(@)]
            /\ Goto(c, "ki_respond")
            /\ UNCHANGED <<result, lockVars, handle, keepalive_task_handle, kaPc>>
       ELSE /\ mfaClosed[c]
            /\ EnsureErr(c, "Disconnected")
            /\ UNCHANGED <<submitted, mfa_rx>>
    /\ UNCHANGED <<connClosed, nconn, mfaClosed, nsent, ki, kiFirst, execVars, argVars, recVars, pumpVars, taskLock, toolVars,
                   conn, net, events>>

\* authenticate_keyboard_interactive_respond fails: "KI respond failed"
KiRespondFail(c) ==
    /\ pc[c] = "ki_respond"
    /\ EnsureErr(c, "KiRespond")
    /\ UNCHANGED <<connClosed, nconn, clientVars, kiVars, execVars, argVars, recVars, pumpVars, taskLock, toolVars, conn, net,
                   events>>

\* the server answers the submitted responses with r
KiRespondDone(c, r) ==
    /\ pc[c] = "ki_respond"
    /\ KiMatch(c, r)
    /\ UNCHANGED <<connClosed, nconn, clientVars, kiFirst, submitted, execVars, argVars, recVars, pumpVars, taskLock, toolVars,
                   conn, net>>

\* ------------------------------------------------------------ exec_whitelisted: execution
\* `let mut guard = self.handle.lock().await` (line 250)
ExecLock(c) ==
    /\ pc[c] = "gap"
    /\ LockRequest(c)
    /\ Goto(c, "ex_open")
    /\ UNCHANGED <<sessVars, clientVars, kiVars, execVars, argVars, recVars, pumpVars, taskLock, toolVars, conn, net, events,
                   result>>

\* the lock is held (lines 251-258): guard.as_ref() on None gives "SSH handle
\* lost after connect"; channel_open_session can succeed only on a
\* connection that is not closed, and gives "open session" on failure
ExecOpen(c, ok) ==
    /\ pc[c] = "ex_open"
    /\ HoldsLock(c)
    /\ IF handle = 0
       THEN /\ Fail(c, "HandleLost")
            /\ LockRelease
            /\ UNCHANGED <<chan, net>>
       ELSE IF ok
       THEN /\ ~connClosed[handle]
            /\ Net(c, "open")
            /\ chan' = [chan EXCEPT ![c] = "open"]
            /\ Goto(c, "ex_exec")
            /\ UNCHANGED <<result, lockVars>>
       ELSE /\ Fail(c, "Open")
            /\ Net(c, "open")
            /\ LockRelease
            /\ chan' = chan
    /\ UNCHANGED <<sessVars, clientVars, kiVars, execSent, nmsg, argVars, recVars, pumpVars, taskLock, toolVars, conn, events>>

\* chan.exec(true, cmd) (line 260): on failure `?` returns at once, eof and
\* close are skipped and the channel is dropped
ExecRequest(c, ok) ==
    /\ pc[c] = "ex_exec"
    /\ Net(c, "exec")
    /\ IF ok
       THEN /\ execSent' = [execSent EXCEPT ![c] = cmd[c]]
            /\ Goto(c, "ex_loop")
            /\ UNCHANGED <<result, lockVars, chan>>
       ELSE /\ Fail(c, "Exec")
            /\ LockRelease
            /\ chan' = [chan EXCEPT ![c] = "dropped"]
            /\ execSent' = execSent
    /\ UNCHANGED <<sessVars, clientVars, kiVars, nmsg, argVars, recVars, pumpVars, taskLock, toolVars, conn, events>>

\* what chan.wait() may yield: a channel message, or None when the channel's
\* stream has ended
ChanMsgs ==
    {[t |-> "Data", v |-> 0], [t |-> "Eof", v |-> 0], [t |-> "Close", v |-> 0],
     [t |-> "Other", v |-> 0], [t |-> "None", v |-> 0]}
    \cup {[t |-> "ExtendedData", v |-> ext] : ext \in {1, 2}}
    \cup {[t |-> "ExitStatus", v |-> u] : u \in ExitStatuses}

\* `Close => break`, and the end of `while let Some(msg)`
EndsLoop(m) == m.t \in {"Close", "None"}

\* one turn of `while let Some(msg) = chan.wait().await` (lines 263-299);
\* a data chunk is identified by its position among the channel's messages
ExecWait(c, m) ==
    /\ pc[c] = "ex_loop"
    /\ EndsLoop(m) \/ nmsg[c] < MaxMsgs
    /\ nmsg' = [nmsg EXCEPT ![c] = IF EndsLoop(m) THEN @ ELSE @ + 1]
    /\ Goto(c, IF EndsLoop(m) THEN "ex_tidy" ELSE "ex_loop")
    /\ IF m.t = "Data"
       THEN Send(c, Event("Stdout", nmsg[c] + 1))
       ELSE IF m.t = "ExtendedData" /\ m.v = 1
       THEN Send(c, Event("Stderr", nmsg[c] + 1))
       ELSE IF m.t = "ExitStatus"
       THEN Send(c, Event("ExitCode", AsI32(m.v)))
       ELSE events' = events
    /\ chanLog' = [chanLog EXCEPT ![c] = IF m.t = "None" THEN @ ELSE Append(@, m)]
    /\ UNCHANGED <<sessVars, lockVars, clientVars, kiVars, execSent, chan, argVars, recVars,
                   evt_rx, taskLock, toolVars, conn, net, result>>

\* `let _ = chan.eof().await; let _ = chan.close().await; Ok(())` (lines
\* 302-305): the guard is dropped on return
ExecTidy(c) ==
    /\ pc[c] = "ex_tidy"
    /\ chan' = [chan EXCEPT ![c] = "closed"]
    /\ Goto(c, "ret")
    /\ result' = [result EXCEPT ![c] = "Ok"]
    /\ LockRelease
    /\ UNCHANGED <<sessVars, clientVars, kiVars, execSent, nmsg, argVars, recVars, pumpVars, taskLock, toolVars, conn, net,
                   events>>

\* ------------------------------------------------------------ the RPC handler
\* the streaming handler that called exec_whitelisted turns a returned Err
\* into one Error event and ends the call's stream
RpcFinish(c) ==
    /\ pc[c] = "ret"
    /\ Goto(c, "done")
    /\ IF result[c] = "Ok" THEN events' = events ELSE Send(c, Event("Error", 0))
    /\ UNCHANGED <<sessVars, lockVars, clientVars, kiVars, execVars, argVars, recVars, pumpVars, taskLock, toolVars, conn, net,
                   result>>

\* ------------------------------------------------------------ the keep-alive task
\* ticker.tick() fires; the task asks for the handle lock (line 137)
KaTick(k) ==
    /\ kaPc[k] = "tick"
    /\ kaPc' = [kaPc EXCEPT ![k] = "check"]
    /\ LockRequest(KA(k))
    /\ UNCHANGED <<handle, connClosed, nconn, keepalive_task_handle, clientVars, kiVars,
                   execVars, argVars, recVars, pumpVars, taskLock, toolVars, pc, conn, net, events, result>>

\* lines 137-141: break if the stored handle is closed; the guard is dropped
\* at the end of the `if let`
KaCheck(k) ==
    /\ kaPc[k] = "check"
    /\ HoldsLock(KA(k))
    /\ kaPc' = [kaPc EXCEPT ![k] =
                   IF handle # 0 /\ connClosed[handle] THEN "exited" ELSE "relock"]
    /\ LockRelease
    /\ UNCHANGED <<handle, connClosed, nconn, keepalive_task_handle, clientVars, kiVars,
                   execVars, argVars, recVars, pumpVars, taskLock, toolVars, pc, conn, net, events, result>>

\* the task asks for the handle lock again (line 143)
KaRelock(k) ==
    /\ kaPc[k] = "relock"
    /\ kaPc' = [kaPc EXCEPT ![k] = "probe"]
    /\ LockRequest(KA(k))
    /\ UNCHANGED <<handle, connClosed, nconn, keepalive_task_handle, clientVars, kiVars,
                   execVars, argVars, recVars, pumpVars, taskLock, toolVars, pc, conn, net, events, result>>

\* lines 143-148: send_keepalive on the stored handle with the lock held, its
\* result ignored; the guard is dropped and the loop goes back to the ticker
KaProbe(k) ==
    /\ kaPc[k] = "probe"
    /\ HoldsLock(KA(k))
    /\ kaPc' = [kaPc EXCEPT ![k] = "tick"]
    /\ LockRelease
    /\ UNCHANGED <<handle, connClosed, nconn, keepalive_task_handle, clientVars, kiVars,
                   execVars, argVars, recVars, pumpVars, taskLock, toolVars, pc, conn, net, events, result>>

\* ------------------------------------------------------------ environment
\* the stored connection is closed by the remote side or by the inactivity
\* timeout (a connection that is not stored is seen only by its own call,
\* as a failed step)
CloseConn(k) ==
    /\ k = handle
    /\ ~connClosed[k]
    /\ connClosed' = [connClosed EXCEPT ![k] = TRUE]
    /\ UNCHANGED <<handle, nconn, keepalive_task_handle, kaPc, lockVars, clientVars,
                   kiVars, execVars, argVars, recVars, pumpVars, taskLock, toolVars, pc, conn, net, events, result>>

\* mfa_rx is read only inside ensure_connected: what the client sends
\* matters while the call is there
Negotiating(c) == pc[c] \in {"ec_check", "ec_connecting", "ec_pubkey", "ki_start",
                             "ki_recv", "ki_respond"}

\* the client sends an MfaAnswer with n responses
ClientAnswer(c, n) ==
    /\ Negotiating(c)
    /\ ~mfaClosed[c]
    /\ nsent[c] < MaxRounds
    /\ nsent' = [nsent EXCEPT ![c] = @ + 1]
    /\ mfa_rx' = [mfa_rx EXCEPT ![c] = Append(@, [id |-> nsent[c] + 1, n |-> n])]
    /\ UNCHANGED <<sessVars, lockVars, mfaClosed, kiVars, execVars, argVars, recVars, pumpVars, taskLock, toolVars, pc, conn, net,
                   events, result>>

\* the client closes its inbound stream
ClientClose(c) ==
    /\ Negotiating(c)
    /\ ~mfaClosed[c]
    /\ mfaClosed' = [mfaClosed EXCEPT ![c] = TRUE]
    /\ UNCHANGED <<sessVars, lockVars, mfa_rx, nsent, kiVars, execVars, argVars, recVars, pumpVars, taskLock, toolVars, pc, conn,
                   net, events, result>>

\* ------------------------------------------------------------ specifications
\* Spec: NumCalls concurrent calls on one SessionManager, with the keep-alive
\* tasks and connection loss.  The remote's and the client's inputs are one
\* representative of each kind, and the client answers as the CLI does: one
\* answer after each challenge.
SessLabels == {LS, LsRm, <<"u">>}
SessKi == {r \in KiResponses : r.n <= 1}
SessMsgs == {m \in ChanMsgs : m.t \in {"Close", "None"} \/ (m.t = "ExitStatus" /\ m.v = 0)}
AuthMsgs == SessMsgs \cup {m \in ChanMsgs : m.t = "Data"}
Challenged(c) == pc[c] = "ki_recv" /\ mfa_rx[c] = <<>>

Next ==
    \/ \E c \in Calls, l \in SessLabels : Start(c, l)
    \/ \E c \in Calls : EnsureCheck(c)
    \/ \E c \in Calls : EnsureTaskLock(c)
    \/ \E c \in Calls : EnsureReturn(c)
    \/ \E c \in Calls : ConnectFail(c)
    \/ \E c \in Calls, keyOk \in BOOLEAN : ConnectOk(c, keyOk)
    \/ \E c \in Calls, r \in PubkeyResults : PubkeyDone(c, r)
    \/ \E c \in Calls : KiStartFail(c)
    \/ \E c \in Calls, r \in SessKi : KiStartDone(c, r)
    \/ \E c \in Calls : KiRecv(c)
    \/ \E c \in Calls : KiRespondFail(c)
    \/ \E c \in Calls, r \in SessKi : KiRespondDone(c, r)
    \/ \E c \in Calls : ExecLock(c)
    \/ \E c \in Calls, ok \in BOOLEAN : ExecOpen(c, ok)
    \/ \E c \in Calls, ok \in BOOLEAN : ExecRequest(c, ok)
    \/ \E c \in Calls, m \in SessMsgs : (EndsLoop(m) \/ nmsg[c] < 1) /\ ExecWait(c, m)
    \/ \E c \in Calls : ExecTidy(c)
    \/ \E c \in Calls : RpcFinish(c)
    \/ \E k \in Conns : KaTick(k)
    \/ \E k \in Conns : KaCheck(k)
    \/ \E k \in Conns : KaRelock(k)
    \/ \E k \in Conns : KaProbe(k)
    \/ \E k \in Conns : CloseConn(k)
    \/ \E c \in Calls : Challenged(c) /\ nsent[c] < 1 /\ ClientAnswer(c, 1)
    \/ \E c \in Calls : Challenged(c) /\ ClientClose(c)

Spec == Init /\ [][Next]_vars

\* the call that SpecAuth and SpecExec follow
First == {c \in Calls : \A d \in Calls : c <= d}

\* SpecAuth: one call on a session that earlier calls may have used, with
\* every answer of the server to the authentication steps and a client that
\* may send answers of any size at any time, or close its stream
NextAuth ==
    \/ \E c \in First : Start(c, LS)
    \/ \E c \in First : EnsureCheck(c)
    \/ \E c \in First : EnsureTaskLock(c)
    \/ \E c \in First : EnsureReturn(c)
    \/ \E c \in First : ConnectFail(c)
    \/ \E c \in First, keyOk \in BOOLEAN : ConnectOk(c, keyOk)
    \/ \E c \in First, r \in PubkeyResults : PubkeyDone(c, r)
    \/ \E c \in First : KiStartFail(c)
    \/ \E c \in First, r \in KiResponses : KiStartDone(c, r)
    \/ \E c \in First : KiRecv(c)
    \/ \E c \in First : KiRespondFail(c)
    \/ \E c \in First, r \in KiResponses : KiRespondDone(c, r)
    \/ \E c \in First : ExecLock(c)
    \/ \E c \in First, ok \in BOOLEAN : ExecOpen(c, ok)
    \/ \E c \in First, ok \in BOOLEAN : ExecRequest(c, ok)
    \/ \E c \in First, m \in AuthMsgs : (EndsLoop(m) \/ nmsg[c] < 1) /\ ExecWait(c, m)
    \/ \E c \in First : ExecTidy(c)
    \/ \E c \in First : RpcFinish(c)
    \/ \E k \in Conns : KaTick(k)
    \/ \E k \in Conns : KaCheck(k)
    \/ \E k \in Conns : KaRelock(k)
    \/ \E k \in Conns : KaProbe(k)
    \/ \E k \in Conns : CloseConn(k)
    \/ \E c \in First, n \in 1..MaxPrompts : ClientAnswer(c, n)
    \/ \E c \in First : ClientClose(c)

SpecAuth == InitUsed /\ [][NextAuth]_vars

\* SpecExec: one call on a session that earlier calls may have used, with
\* every label and every sequence of up to MaxMsgs channel messages
NextExec ==
    \/ \E c \in First, l \in Labels : Start(c, l)
    \/ \E c \in First : EnsureCheck(c)
    \/ \E c \in First : EnsureTaskLock(c)
    \/ \E c \in First : EnsureReturn(c)
    \/ \E c \in First : ConnectFail(c)
    \/ \E c \in First, keyOk \in BOOLEAN : ConnectOk(c, keyOk)
    \/ \E c \in First, r \in PubkeyResults : PubkeyDone(c, r)
    \/ \E c \in First : KiStartFail(c)
    \/ \E c \in First, r \in SessKi : KiStartDone(c, r)
    \/ \E c \in First : KiRecv(c)
    \/ \E c \in First : KiRespondFail(c)
    \/ \E c \in First, r \in SessKi : KiRespondDone(c, r)
    \/ \E c \in First : ExecLock(c)
    \/ \E c \in First, ok \in BOOLEAN : ExecOpen(c, ok)
    \/ \E c \in First, ok \in BOOLEAN : ExecRequest(c, ok)
    \/ \E c \in First, m \in ChanMsgs : ExecWait(c, m)
    \/ \E c \in First : ExecTidy(c)
    \/ \E c \in First : RpcFinish(c)
    \/ \E k \in Conns : KaTick(k)
    \/ \E k \in Conns : KaCheck(k)
    \/ \E k \in Conns : KaRelock(k)
    \/ \E k \in Conns : KaProbe(k)
    \/ \E k \in Conns : CloseConn(k)
    \/ \E c \in First : Challenged(c) /\ nsent[c] < 1 /\ ClientAnswer(c, 1)
    \/ \E c \in First : Challenged(c) /\ ClientClose(c)

SpecExec == InitUsed /\ [][NextExec]_vars

\* ------------------------------------------------------------ properties
\* the connect/negotiate section of ensure_connected
InAuth(c) == pc[c] \in {"ec_connecting", "ec_pubkey", "ki_start", "ki_recv", "ki_respond",
                         "ec_spawned", "ec_task"}
\* exec_whitelisted from channel open to channel close
InExec(c) == pc[c] \in {"ex_exec", "ex_loop", "ex_tidy"}
\* ensure_connected has returned Ok and the channel is not open yet
InWindow(c) == pc[c] \in {"gap", "ex_open"}
Waiting(t) == \E i \in DOMAIN lockQueue : lockQueue[i] = t
Count(seq, t) == Cardinality({i \in DOMAIN seq : seq[i].t = t})
IsMfa(e) == e.t = "Mfa"
MfaEvents(c) == SelectSeq(events[c], IsMfa)

\* C1: at every instant at most one call of a SessionManager is inside the
\* connect/negotiate section of ensure_connected or between channel open and
\* channel close of exec_whitelisted.
C1_OneAtATime ==
    \A c, d \in Calls :
        c # d => ~((InAuth(c) \/ InExec(c)) /\ (InAuth(d) \/ InExec(d)))

\* a call executes while another call waits for the lock
C1_Witness ==
    \E c, d \in Calls : c # d /\ InExec(c) /\ Waiting(d)

C3_RejectedBeforeNetwork ==
    \A c \in Calls :
        pc[c] # "idle" /\ label[c] \notin WhitelistEntries =>
            /\ pc[c] \in {"ret", "done"}
            /\ result[c] = "NotAllowed"
            /\ net[c] = {}
            /\ conn[c] = 0
            /\ lockHolder # c /\ ~Waiting(c)
            /\ Count(events[c], "Error") = Len(events[c])

\* a call has been rejected and the stored handle is closed, the lock held by
\* another task
C3_Witness ==
    \E c \in Calls :
        /\ result[c] = "NotAllowed"
        /\ handle # 0 /\ connClosed[handle]
        /\ lockHolder # NoTask

\* C4: the command of the exec request is a whitelist entry and is the
\* call's label; the label "ls; rm -rf /" is rejected and nothing is sent.
C4_LiteralCommand ==
    \A c \in Calls :
        /\ execSent[c] # NotAllowed =>
              execSent[c] \in WhitelistEntries /\ execSent[c] = label[c]
        /\ label[c] = LsRm => execSent[c] = NotAllowed /\ result[c] = "NotAllowed"

\* "uname -a" has been sent, and is what the call was asked for
C4_Witness ==
    \E c \in Calls : execSent[c] = UNAME /\ label[c] = UNAME

\* C5: once an ExitCode or Error event has been sent on a call, no further
\* event is sent on it.
C5_NothingAfterTerminal ==
    \A c \in Calls :
        \A i \in DOMAIN events[c] :
            events[c][i].t \in {"ExitCode", "Error"} => i = Len(events[c])

\* C6: a call that has ended has sent exactly one terminal event: one
\* ExitCode and no Error when it returned Ok, one Error and no ExitCode when
\* it returned Err.
C6_ExactlyOneTerminal ==
    \A c \in Calls :
        pc[c] = "done" =>
            /\ result[c] = "Ok" =>
                  Count(events[c], "ExitCode") = 1 /\ Count(events[c], "Error") = 0
            /\ result[c] # "Ok" =>
                  Count(events[c], "Error") = 1 /\ Count(events[c], "ExitCode") = 0

\* C7 as claimed: without an identity path public-key authentication is not
\* attempted, and whatever the server answers to the keyboard-interactive
\* start the first event of the call is an Mfa challenge.
C7_FirstEventIsMfa ==
    \A c \in Calls :
        ~identity /\ kiFirst[c] # "none" =>
            /\ "pubkey" \notin net[c]
            /\ events[c] # <<>> => events[c][1].t = "Mfa"

\* C7 as amended: without an identity path public-key authentication is not
\* attempted and a connected call goes to the keyboard-interactive start; the
\* first event is an Mfa challenge when the server answers the start with an
\* InfoRequest; on Success no Mfa event is sent at all, on Failure the only
\* event is the Error.
C7_FirstEventByAnswer ==
    \A c \in Calls :
        ~identity =>
            /\ "pubkey" \notin net[c]
            /\ conn[c] # 0 => "ki" \in net[c]
            /\ kiFirst[c] = "InfoRequest" => events[c] # <<>> /\ events[c][1].t = "Mfa"
            /\ kiFirst[c] = "Success" => Count(events[c], "Mfa") = 0
            /\ kiFirst[c] = "Failure" => Count(events[c], "Error") = Len(events[c])

\* without an identity path the start was answered with an InfoRequest, and
\* the call went on to stream output after the challenge
C7_Witness ==
    \E c \in Calls :
        /\ ~identity /\ kiFirst[c] = "InfoRequest"
        /\ events[c][1].t = "Mfa"
        /\ Count(events[c], "Stdout") > 0

\* an answer of the wrong size has gone to the server
Mismatched(c) ==
    \E i \in DOMAIN submitted[c] : submitted[c][i].n # submitted[c][i].prompts
\* ensure_connected has returned Ok
Authenticated(c) == InWindow(c) \/ InExec(c) \/ result[c] = "Ok"

\* C8: an answer whose number of responses differs from the challenge's number
\* of prompts is never passed to the server, and the authentication of a call
\* that received one does not succeed.
C8_CountEnforced ==
    \A c \in Calls :
        /\ ~Mismatched(c)
        /\ Mismatched(c) => ~Authenticated(c)

\* C9: challenges and answers alternate: at most one challenge is
\* outstanding, none while an answer is with the server, and the k-th answer
\* submitted is the k-th the client sent, submitted for the k-th challenge.
C9_StrictAlternation ==
    \A c \in Calls :
        /\ Len(MfaEvents(c)) - Len(submitted[c]) \in {0, 1}
        /\ pc[c] = "ki_recv" => Len(MfaEvents(c)) = Len(submitted[c]) + 1
        /\ pc[c] = "ki_respond" => Len(MfaEvents(c)) = Len(submitted[c])
        /\ \A k \in DOMAIN submitted[c] :
              /\ submitted[c][k].id = k
              /\ submitted[c][k].prompts = MfaEvents(c)[k].v

\* two rounds were answered and the call authenticated
C9_Witness ==
    \E c \in Calls : Len(submitted[c]) = 2 /\ pc[c] = "gap"

\* a challenge is outstanding, nothing is queued and the client has closed
PendingClosed(c) == pc[c] = "ki_recv" /\ mfa_rx[c] = <<>> /\ mfaClosed[c]

\* C10: when the client has closed its stream while a challenge is
\* outstanding, the receive can complete, and the call's next step is the
\* return of "client disconnected during MFA": the handle field, the
\* keep-alive task and its JoinHandle are left as they were and the lock is
\* given up.
C10_DisconnectAborts ==
    /\ [](\A c \in Calls : PendingClosed(c) => ENABLED KiRecv(c))
    /\ [][\A c \in Calls :
            PendingClosed(c) /\ pc'[c] # pc[c] =>
                /\ pc'[c] = "ret"
                /\ result'[c] = "Disconnected"
                /\ <<handle, keepalive_task_handle, kaPc>>' =
                       <<handle, keepalive_task_handle, kaPc>>
                /\ lockHolder' # c]_vars

\* a call has returned the disconnect error and no handle is stored
C10_Witness ==
    \E c \in Calls : pc[c] = "ret" /\ result[c] = "Disconnected" /\ handle = 0

\* results of exec_whitelisted that come from ensure_connected's errors
AuthErrors == {"Connect", "KeyLoad", "Pubkey", "AuthFailure", "KiStart", "AuthFailed",
               "KiRespond", "Disconnected"}

\* C11: with an identity path the keyboard-interactive start is sent only
\* after public-key authentication was tried, and it is sent if and only if
\* public-key authentication failed with partial success and
\* keyboard-interactive among the remaining methods; every other failure
\* ends the call with an authentication error and no Mfa event, and on
\* public-key success ensure_connected returns Ok with no Mfa event.
C11_PubkeyFirst ==
    \A c \in Calls :
        identity =>
            /\ "ki" \in net[c] => "pubkey" \in net[c]
            /\ "pubkey" \in net[c] /\ pc[c] # "ec_pubkey" => pubkey[c].t # "none"
            /\ pubkey[c].t # "none" =>
                  /\ "ki" \in net[c] <=>
                        (pubkey[c].t = "Failure" /\ pubkey[c].partial /\ pubkey[c].kiListed)
                  /\ "ki" \notin net[c] => Count(events[c], "Mfa") = 0
                  /\ "ki" \notin net[c] /\ pubkey[c].t # "Success" =>
                        /\ pc[c] \in {"ret", "done"}
                        /\ result[c] \in {"Pubkey", "AuthFailure"}
                  /\ pubkey[c].t = "Success" =>
                        /\ ~Negotiating(c)
                        /\ result[c] \notin AuthErrors

\* public-key authentication failed with partial success and
\* keyboard-interactive listed, and the server then sent a challenge
C11_Witness ==
    \E c \in Calls :
        /\ identity /\ pubkey[c].t = "Failure"
        /\ pubkey[c].partial /\ pubkey[c].kiListed
        /\ Count(events[c], "Mfa") > 0

\* C12: ensure_connected connects, and negotiates, if and only if no handle is
\* stored or the stored handle is closed; with a live handle it returns at
\* once: the call performs no network operation, sends no event, consumes no
\* answer, and the handle field, the connection count, the keep-alive tasks
\* and the JoinHandle stay as they were.
C12_NoOpWhenLive ==
    /\ [](\A c \in Calls :
            InAuth(c) \/ conn[c] # 0 \/ Count(events[c], "Mfa") > 0 \/ submitted[c] # <<>>
                => "connect" \in net[c])
    /\ [][\A c \in Calls :
            pc[c] = "ec_check" /\ pc'[c] # pc[c] =>
                IF handle # 0 /\ ~connClosed[handle]
                THEN /\ pc'[c] = "gap"
                     /\ <<net[c], events[c], mfa_rx[c], submitted[c], conn[c]>>' =
                            <<net[c], events[c], mfa_rx[c], submitted[c], conn[c]>>
                     /\ <<handle, nconn, keepalive_task_handle, kaPc>>' =
                            <<handle, nconn, keepalive_task_handle, kaPc>>
                ELSE /\ pc'[c] = "ec_connecting"
                     /\ "connect" \in net'[c]]_vars

\* ensure_connected has returned on a live handle without connecting, an
\* answer of the client still queued
C12_Witness ==
    \E c \in Calls :
        /\ pc[c] = "gap" /\ "connect" \notin net[c]
        /\ mfa_rx[c] # <<>>
        /\ handle # 0 /\ ~connClosed[handle]

\* keep-alive loops that have been spawned and have not left their loop
ActiveLoops == {k \in Conns : kaPc[k] \notin {"none", "exited"}}

\* C13: at most one keep-alive loop is active on the session, and a loop sends
\* its probe only on the handle of the connection it was started for.
C13_OneKeepAlive ==
    /\ Cardinality(ActiveLoops) <= 1
    /\ \A k \in Conns : kaPc[k] = "probe" /\ lockHolder = KA(k) => handle = k

\* C14: a call that has returned, by whichever path, neither holds the handle
\* lock nor waits for it, and a call that has not arrived or is between its
\* two locked sections does not hold it either: the lock is free or with
\* a task that is still running.
C14_ReleasedOnReturn ==
    \A c \in Calls :
        /\ pc[c] \in {"ret", "done"} => lockHolder # c /\ ~Waiting(c)
        /\ lockHolder = c => pc[c] \notin {"idle", "gap", "ret", "done"}

\* the first call returned "client disconnected during MFA" and the second
\* call now holds the lock
C14_Witness ==
    \E c, d \in Calls :
        /\ c # d /\ pc[c] \in {"ret", "done"} /\ result[c] = "Disconnected"
        /\ lockHolder = d /\ InAuth(d)

IsExitCode(e) == e.t = "ExitCode"
ExitCodes(c) == SelectSeq(events[c], IsExitCode)

\* C15 as claimed: every ExitCode event carries an exit status the remote
\* reported, unchanged, and a call that sent one returns Ok and sends no
\* Error event.
C15_StatusIsNotAnError ==
    \A c \in Calls :
        /\ \A i \in DOMAIN ExitCodes(c) : ExitCodes(c)[i].v \in ExitStatuses
        /\ ExitCodes(c) # <<>> =>
              /\ result[c] \in {"none", "Ok"}
              /\ Count(events[c], "Error") = 0

\* C15 as amended: every ExitCode event carries a reported exit status cast
\* to the signed type of the same width (a status in the upper half of the
\* unsigned range appears as the negative number with the same bits), zero or
\* not; a call that sent one returns Ok and sends no Error event.
C15_StatusCastIsNotAnError ==
    \A c \in Calls :
        /\ \A i \in DOMAIN ExitCodes(c) :
              /\ ExitCodes(c)[i].v >= - StatusHalf /\ ExitCodes(c)[i].v < StatusHalf
              /\ \E u \in ExitStatuses : (ExitCodes(c)[i].v - u) % StatusMod = 0
        /\ ExitCodes(c) # <<>> =>
              /\ pc[c] \in {"ex_loop", "ex_tidy", "ret", "done"}
              /\ result[c] \in {"none", "Ok"}
              /\ pc[c] \in {"ret", "done"} => result[c] = "Ok"
              /\ Count(events[c], "Error") = 0

\* a call has ended with Ok after a nonzero status and after a status of the
\* upper half of the range
C15_Witness ==
    \E c \in Calls :
        /\ pc[c] = "done" /\ result[c] = "Ok"
        /\ \E i, j \in DOMAIN ExitCodes(c) : ExitCodes(c)[i].v = 3 /\ ExitCodes(c)[j].v < 0

\* call a asked for the handle lock at line 70 before call b did
Before(a, b) ==
    \E i, j \in DOMAIN arrival : i < j /\ arrival[i] = a /\ arrival[j] = b

\* C16: calls are served in arrival order: when the channel of a call has
\* been opened, every call that asked for the lock before it has returned.
C16_ArrivalOrder ==
    \A a, b \in Calls :
        Before(a, b) /\ chan[b] # "none" => pc[a] \in {"ret", "done"}

\* ------------------------------------------------------------ managers of distinct hosts
\* The one SessionManager above at rest, for the specifications that follow
\* other parts of the program
SessionIdle ==
    /\ identity = FALSE
    /\ handle = 0
    /\ connClosed = [k \in Conns |-> FALSE]
    /\ nconn = 0
    /\ lockHolder = NoTask
    /\ lockQueue = <<>>
    /\ taskLock = NoTask
    /\ keepalive_task_handle = 0
    /\ kaPc = [k \in Conns |-> "none"]
    /\ CallsIdle

NumHosts == 2       \* hosts, each with its own SessionManager
Hosts == 1..NumHosts
\* a SessionManager owns two mutexes: `handle` and `keepalive_task_handle`
Cells == 1..(2 * NumHosts)

\* Arc::new(Mutex::new(None)): a mutex nobody holds, with no value
FreshCell == [holder |-> NoTask, queue |-> <<>>, value |-> 0]
NoManager == [handle |-> 0, keepalive_task_handle |-> 0]

\* `managers` in SpecHosts: the managers created so far by host, the mutexes
\* allocated so far, and for each call its host and its position
ManagersNew ==
    [pc |-> "hosts",
     mgr |-> [h \in Hosts |-> NoManager],
     cells |-> [k \in Cells |-> FreshCell],
     ncells |-> 0,
     host |-> [c \in Calls |-> 0],
     hpc |-> [c \in Calls |-> "idle"]]

\* an allocation that hands out the same mutex every time
NewCellShared(n) == 1

\* Arc::new: the n allocations made so far are not reused
NewCell(n) == n + 1

\* SessionManager::new for host h (lines 54-59): two new mutexes
HostNew(h) ==
    /\ managers.pc = "hosts"
    /\ managers.mgr[h] = NoManager
    /\ managers' = [managers EXCEPT
           !.mgr[h] = [handle |-> NewCell(managers.ncells),
                       keepalive_task_handle |-> NewCell(managers.ncells + 1)],
           !.ncells = @ + 2]
    /\ UNCHANGED <<sessionVars, cli, dns, cfg>>

\* the SessionManager that was created for host h
ManagerOf(h) == managers.mgr[h]

\* lock().await on mutex k by task t, and the drop of its guard
CellLock(cells, k, t) ==
    IF cells[k].holder = NoTask
    THEN [cells EXCEPT ![k].holder = t]
    ELSE [cells EXCEPT ![k].queue = Append(@, t)]
CellUnlock(cells, k) ==
    IF cells[k].queue = <<>>
    THEN [cells EXCEPT ![k].holder = NoTask]
    ELSE [cells EXCEPT ![k].holder = Head(cells[k].queue), ![k].queue = Tail(@)]

HandleCell(c) == ManagerOf(managers.host[c]).handle
KeepaliveCell(c) == ManagerOf(managers.host[c]).keepalive_task_handle
HostHolds(c) == managers.cells[HandleCell(c)].holder = c

\* a call on host h arrives and asks for the manager's handle lock (line 70)
HostStart(c, h) ==
    /\ managers.pc = "hosts"
    /\ managers.hpc[c] = "idle"
    /\ ManagerOf(h) # NoManager
    /\ managers' = [managers EXCEPT
           !.host[c] = h,
           !.hpc[c] = "ec",
           !.cells = CellLock(@, ManagerOf(h).handle, c)]
    /\ UNCHANGED <<sessionVars, cli, dns, cfg>>

\* lines 73-84: with the lock, connect if the manager has no handle,
\* otherwise return and drop the guard
HostCheck(c) ==
    /\ managers.hpc[c] = "ec"
    /\ HostHolds(c)
    /\ IF managers.cells[HandleCell(c)].value = 0
       THEN managers' = [managers EXCEPT !.hpc[c] = "connecting"]
       ELSE managers' = [managers EXCEPT !.hpc[c] = "gap",
                                         !.cells = CellUnlock(@, HandleCell(c))]
    /\ UNCHANGED <<sessionVars, cli, dns, cfg>>

\* connected: the call waits for the client's MFA answer
HostChallenge(c) ==
    /\ managers.hpc[c] = "connecting"
    /\ managers' = [managers EXCEPT !.hpc[c] = "mfa"]
    /\ UNCHANGED <<sessionVars, cli, dns, cfg>>

\* authenticated (ok): lines 128-156, the handle and the JoinHandle are
\* stored in the manager's own mutexes; rejected: the call returns the error
HostAuthDone(c, ok) ==
    /\ managers.hpc[c] \in {"connecting", "mfa"}
    /\ IF ok
       THEN managers' = [managers EXCEPT
               !.hpc[c] = "gap",
               !.cells = CellUnlock([@ EXCEPT ![HandleCell(c)].value = c,
                                              ![KeepaliveCell(c)].value = c],
                                    HandleCell(c))]
       ELSE managers' = [managers EXCEPT !.hpc[c] = "done",
                                         !.cells = CellUnlock(@, HandleCell(c))]
    /\ UNCHANGED <<sessionVars, cli, dns, cfg>>

\* line 250: the second lock request
HostExecLock(c) ==
    /\ managers.hpc[c] = "gap"
    /\ managers' = [managers EXCEPT !.hpc[c] = "ex",
                                     !.cells = CellLock(@, HandleCell(c), c)]
    /\ UNCHANGED <<sessionVars, cli, dns, cfg>>

\* lines 255-299: the channel is open and the command runs
HostExec(c) ==
    /\ managers.hpc[c] = "ex"
    /\ HostHolds(c)
    /\ managers' = [managers EXCEPT !.hpc[c] = "exec"]
    /\ UNCHANGED <<sessionVars, cli, dns, cfg>>

\* lines 302-305: the call returns and its guard is dropped
HostReturn(c) ==
    /\ managers.hpc[c] = "exec"
    /\ managers' = [managers EXCEPT !.hpc[c] = "done",
                                     !.cells = CellUnlock(@, HandleCell(c))]
    /\ UNCHANGED <<sessionVars, cli, dns, cfg>>

InitHosts ==
    /\ SessionIdle
    /\ cli = NoCli
    /\ dns = NoDns
    /\ managers = ManagersNew
    /\ cfg = NoCfg

NextHosts ==
    \/ \E h \in Hosts : HostNew(h)
    \/ \E c \in Calls, h \in Hosts : HostStart(c, h)
    \/ \E c \in Calls : HostCheck(c)
    \/ \E c \in Calls : HostChallenge(c)
    \/ \E c \in Calls, ok \in BOOLEAN : HostAuthDone(c, ok)
    \/ \E c \in Calls : HostExecLock(c)
    \/ \E c \in Calls : HostExec(c)
    \/ \E c \in Calls : HostReturn(c)

SpecHosts == InitHosts /\ [][NextHosts]_vars

\* the mutexes of the manager of host h
CellsOf(h) == {ManagerOf(h).handle, ManagerOf(h).keepalive_task_handle}
HostWaiting(c) ==
    /\ managers.host[c] # 0
    /\ \E i \in DOMAIN managers.cells[HandleCell(c)].queue :
           managers.cells[HandleCell(c)].queue[i] = c

\* C17: the managers of distinct hosts have no mutex in common; a call waits
\* for a lock only while a call on the same host holds it; and a step of a
\* call on one host leaves the handle, the keep-alive task and the lock of
\* every other host's manager as they were.
C17_HostsIndependent ==
    /\ [](\A h, g \in Hosts :
            h # g /\ ManagerOf(h) # NoManager /\ ManagerOf(g) # NoManager
                => CellsOf(h) \cap CellsOf(g) = {})
    /\ [](\A c \in Calls :
            HostWaiting(c) =>
                \E d \in Calls :
                    /\ d # c /\ managers.host[d] = managers.host[c]
                    /\ managers.cells[HandleCell(c)].holder = d)
    /\ [][\A c \in Calls, g \in Hosts :
            /\ managers'.hpc[c] # managers.hpc[c]
            /\ managers'.host[c] # g
            /\ ManagerOf(g) # NoManager
            => \A k \in CellsOf(g) : managers'.cells[k] = managers.cells[k]]_vars

\* calls on two hosts hold their managers' locks at once, one waiting for an
\* MFA answer and one executing
C17_Witness ==
    \E c, d \in Calls :
        /\ managers.pc = "hosts"
        /\ managers.host[c] # managers.host[d]
        /\ managers.hpc[c] = "mfa" /\ managers.hpc[d] = "exec"

\* ------------------------------------------------------------ the CLI (src/cli/src/main.rs)
MaxItems == 2       \* items the server sends on the inbound stream of one RPC

\* Option<i32>
NoCode == [some |-> FALSE, v |-> 0]
Some(v) == [some |-> TRUE, v |-> v]

\* ExitCode values the CLI may receive: what AsI32 produces, and 1
CliCodes == {AsI32(u) : u \in ExitStatuses} \cup {1}

\* items of the inbound stream.  Stderr: v = 1 when writing it to the
\* terminal fails; Mfa: v = 0 when the answers are read and sent, 1 when
\* prompt_value fails, 2 when tx_ans.send fails; Empty is an event of None;
\* StreamErr is Err(status)
CliItems ==
    {[t |-> "Stdout", v |-> 0], [t |-> "Error", v |-> 0], [t |-> "Empty", v |-> 0],
     [t |-> "StreamErr", v |-> 0]}
    \cup {[t |-> "Stderr", v |-> f] : f \in {0, 1}}
    \cup {[t |-> "Mfa", v |-> f] : f \in {0, 1, 2}}
    \cup {[t |-> "ExitCode", v |-> code] : code \in CliCodes}
NoItem == [t |-> "none", v |-> 0]

SeqsUpTo(S, n) == UNION {[1..k -> S] : k \in 0..n}

\* what the ping call may give within or after the timeout
PingBodies == {"pong", "PONG", "", "pong ", "ping"}
PingOutcomes ==
    {[t |-> "Elapsed", v |-> ""]}
    \cup {[t |-> "Status", v |-> code] : code \in {"InvalidArgument", "Cancelled", "Unavailable"}}
    \cup {[t |-> "Reply", v |-> body] : body \in PingBodies}

\* the CLI process before main runs: its subcommand and what the server
\* will send
CliStart(command, reply, rpcOk, inbound) ==
    [pc |-> "main", cmd |-> command, sent |-> "", reply |-> reply, rpcOk |-> rpcOk,
     inbound |-> inbound, last |-> NoItem, exit_code |-> NoCode, ret |-> "none",
     status |-> NoCode]

CliInputs ==
    {CliStart("Ping", r, TRUE, <<>>) : r \in PingOutcomes}
    \cup {CliStart("Ls", [t |-> "Elapsed", v |-> ""], TRUE, q) : q \in SeqsUpTo(CliItems, MaxItems)}
    \cup {CliStart("Ls", [t |-> "Elapsed", v |-> ""], FALSE, <<>>)}

\* main's match on cli.cmd (lines 403-408): send_ping sends "ping"
\* (lines 66-69); send_ls starts the RPC, `?` on its failure (line 99)
CliMain ==
    /\ cli.pc = "main"
    /\ IF cli.cmd = "Ping"
       THEN cli' = [cli EXCEPT !.pc = "ping_wait", !.sent = "ping"]
       ELSE IF cli.rpcOk
       THEN cli' = [cli EXCEPT !.pc = "ls_loop"]
       ELSE cli' = [cli EXCEPT !.pc = "ret", !.ret = "Err"]
    /\ UNCHANGED <<sessionVars, dns, managers, cfg>>

\* a comparison that ignores case
PingAcceptsAnyCase(body) == body \in {"pong", "PONG", "Pong"}

\* `match message.as_str() { "pong" => Ok(()), v => bail!(..) }` (lines 87-90)
PingAccepts(body) == body = "pong"

\* lines 69-90: the timeout elapsed, an error status, or a reply
CliPingReply ==
    /\ cli.pc = "ping_wait"
    /\ cli' = [cli EXCEPT
           !.pc = "ret",
           !.ret = IF cli.reply.t = "Reply" /\ PingAccepts(cli.reply.v)
                   THEN "Ok" ELSE "Err"]
    /\ UNCHANGED <<sessionVars, dns, managers, cfg>>

\* one turn of `while let Some(item) = inbound.next().await` (lines 102-152)
CliLsNext ==
    /\ cli.pc = "ls_loop"
    /\ IF cli.inbound = <<>>
       THEN cli' = [cli EXCEPT !.pc = "ls_end"]
       ELSE LET item == Head(cli.inbound)
                rest == [cli EXCEPT !.inbound = Tail(@), !.last = item]
            IN  IF item.t = "ExitCode"
                THEN cli' = [rest EXCEPT !.exit_code = Some(item.v), !.pc = "ls_end"]
                ELSE IF item.t \in {"Error", "StreamErr"}
                THEN cli' = [rest EXCEPT !.exit_code = Some(1), !.pc = "ls_end"]
                ELSE IF item.t = "Stderr" /\ item.v = 1
                THEN cli' = [rest EXCEPT !.pc = "ret", !.ret = "Err"]
                ELSE IF item.t = "Mfa" /\ item.v = 1
                THEN cli' = [rest EXCEPT !.pc = "ret", !.ret = "Err"]
                ELSE IF item.t = "Mfa" /\ item.v = 2
                THEN cli' = [rest EXCEPT !.pc = "ls_end"]
                ELSE cli' = rest
    /\ UNCHANGED <<sessionVars, dns, managers, cfg>>

\* `match exit_code` (lines 153-163)
CliLsEnd ==
    /\ cli.pc = "ls_end"
    /\ cli' = [cli EXCEPT
           !.pc = "ret",
           !.ret = IF cli.exit_code.some /\ cli.exit_code.v # 0 THEN "Err" ELSE "Ok"]
    /\ UNCHANGED <<sessionVars, dns, managers, cfg>>

\* the exit status of a process whose main returns anyhow::Result<()>:
\* 0 for Ok, 1 for Err
ExitOf(ret) == IF ret = "Ok" THEN 0 ELSE 1

\* main returns (lines 404-427)
CliExit ==
    /\ cli.pc = "ret"
    /\ cli' = [cli EXCEPT !.pc = "exited", !.status = Some(ExitOf(cli.ret))]
    /\ UNCHANGED <<sessionVars, dns, managers, cfg>>

InitCli ==
    /\ SessionIdle
    /\ cli \in CliInputs
    /\ dns = NoDns
    /\ managers = NoManagers
    /\ cfg = NoCfg

NextCli ==
    \/ CliMain
    \/ CliPingReply
    \/ CliLsNext
    \/ CliLsEnd
    \/ CliExit

SpecCli == InitCli /\ [][NextCli]_vars

\* the streaming call ended on a terminal item
CliTerminal ==
    cli.pc = "exited" /\ cli.cmd = "Ls" /\ cli.last.t \in {"ExitCode", "Error", "StreamErr"}

\* C18: the exit status of the CLI after a streaming call is 0 when the
\* terminal event was ExitCode 0, the ExitCode's value when it was not zero,
\* and 1 when it was an Error event or a stream error.
C18_ExitCodeOfTerminal ==
    CliTerminal =>
        cli.status = Some(IF cli.last.t = "ExitCode" THEN cli.last.v ELSE 1)

\* C19: send_ping sends "ping", and it succeeds, main exiting with 0, exactly
\* when a reply arrived within the timeout and its body is "pong"; a timeout,
\* an error status and every other body end in a failure and a nonzero exit.
C19_PongOnly ==
    cli.cmd = "Ping" /\ cli.pc \in {"ret", "exited"} =>
        /\ cli.sent = "ping"
        /\ cli.ret = "Ok" <=> (cli.reply.t = "Reply" /\ cli.reply.v = "pong")
        /\ cli.pc = "exited" =>
              (cli.status.v = 0 <=> (cli.reply.t = "Reply" /\ cli.reply.v = "pong"))

\* the reply "PONG" arrived in time and the CLI exited with a failure
C19_Witness ==
    /\ cli.pc = "exited" /\ cli.cmd = "Ping"
    /\ cli.reply = [t |-> "Reply", v |-> "PONG"]
    /\ cli.ret = "Err" /\ cli.status = Some(1)

\* ------------------------------------------------------------ lookup_first_addr (src/hpcd/src/util/net.rs)
MaxAddrs == 2       \* addresses in one answer of the resolver

NetHosts == {"login.example", ""}
NetPorts == {22, 2222}
NetIps == {"10.0.0.1", "10.0.0.2", "::1"}
\* io::ErrorKind of a failed lookup_host
NetErrorKinds == {"NotFound", "TimedOut", "PermissionDenied", "Other"}

\* what lookup_host will answer: an io::Error, or addresses in the
\* resolver's order
NetAnswers ==
    {[t |-> "Err", kind |-> k, addrs |-> <<>>] : k \in NetErrorKinds}
    \cup {[t |-> "Ok", kind |-> "", addrs |-> q] : q \in SeqsUpTo(NetIps, MaxAddrs)}

NoEndpoint == [ip |-> "", port |-> 0]
NetResult(t, cause, addr) == [t |-> t, cause |-> cause, addr |-> addr]

\* a call of lookup_first_addr(host, port) that has not started
DnsCall(host, port, answer) ==
    [pc |-> "call", host |-> host, port |-> port, answer |-> answer, lookups |-> 0,
     addrs |-> <<>>, result |-> NetResult("none", "", NoEndpoint)]

\* the closure of map_err (lines 21-24)
MapLookupErr(kind, host) ==
    IF kind = "NotFound"
    THEN NetResult("DnsNotFound", host, NoEndpoint)
    ELSE NetResult("Resolve", kind, NoEndpoint)

\* a choice of the address the resolver listed last
TakeLast(addrs, host) ==
    IF addrs = <<>>
    THEN NetResult("NoAddrs", host, NoEndpoint)
    ELSE NetResult("Ok", "", addrs[Len(addrs)])

\* `addrs.next().ok_or_else(|| NetError::NoAddrs(..))` (lines 27-29)
TakeFirst(addrs, host) ==
    IF addrs = <<>>
    THEN NetResult("NoAddrs", host, NoEndpoint)
    ELSE NetResult("Ok", "", Head(addrs))

\* lookup_host((host, port)).await with map_err and `?` (lines 19-24)
NetLookup ==
    /\ dns.pc = "call"
    /\ IF dns.answer.t = "Err"
       THEN dns' = [dns EXCEPT !.pc = "returned",
                               !.lookups = @ + 1,
                               !.result = MapLookupErr(dns.answer.kind, dns.host)]
       ELSE dns' = [dns EXCEPT !.pc = "resolved",
                               !.lookups = @ + 1,
                               !.addrs = [i \in DOMAIN dns.answer.addrs |->
                                             [ip |-> dns.answer.addrs[i], port |-> dns.port]]]
    /\ UNCHANGED <<sessionVars, cli, managers, cfg>>

\* lines 27-29
NetFirst ==
    /\ dns.pc = "resolved"
    /\ dns' = [dns EXCEPT !.pc = "returned", !.result = TakeFirst(dns.addrs, dns.host)]
    /\ UNCHANGED <<sessionVars, cli, managers, cfg>>

InitNet ==
    /\ SessionIdle
    /\ cli = NoCli
    /\ managers = NoManagers
    /\ cfg = NoCfg
    /\ dns \in {DnsCall(h, p, a) : h \in NetHosts, p \in NetPorts, a \in NetAnswers}

NextNet ==
    \/ NetLookup
    \/ NetFirst

SpecNet == InitNet /\ [][NextNet]_vars

\* C20: lookup_first_addr asks the resolver once; it returns the first
\* endpoint of the answer, with the port it was given; a lookup error of kind
\* NotFound gives DnsNotFound with the host name, a lookup error of any other
\* kind gives Resolve with that error, and an answer without addresses gives
\* NoAddrs with the host name.
C20_FirstAddrOrError ==
    /\ dns.lookups <= 1
    /\ dns.pc = "returned" =>
          /\ dns.lookups = 1
          /\ dns.result.t \in {"Ok", "DnsNotFound", "Resolve", "NoAddrs"}
          /\ dns.result.t = "DnsNotFound" <=>
                (dns.answer.t = "Err" /\ dns.answer.kind = "NotFound")
          /\ dns.result.t = "Resolve" <=>
                (dns.answer.t = "Err" /\ dns.answer.kind # "NotFound")
          /\ dns.result.t = "NoAddrs" <=>
                (dns.answer.t = "Ok" /\ dns.answer.addrs = <<>>)
          /\ dns.result.t \in {"DnsNotFound", "NoAddrs"} => dns.result.cause = dns.host
          /\ dns.result.t = "Resolve" => dns.result.cause = dns.answer.kind
          /\ dns.result.t = "Ok" =>
                dns.result.addr = [ip |-> dns.answer.addrs[1], port |-> dns.port]

\* the resolver listed two different addresses and the first was returned
C20_Witness ==
    /\ dns.pc = "returned" /\ dns.result.t = "Ok"
    /\ Len(dns.answer.addrs) = 2 /\ dns.answer.addrs[1] # dns.answer.addrs[2]
    /\ dns.result.addr.ip = dns.answer.addrs[1]

\* ------------------------------------------------------------ config::load (src/hpcd/src/config.rs)
APP_DIR_NAME == "hpcd"
CONFIG_FILE_NAME == "hpcd.toml"
DATABASE_FILE_NAME == "hpcd.sqlite"
DEFAULT_JOB_CHECK_INTERVAL_SECS == 5

\* a PathBuf: absolute or not, and its components; a path as a user writes
\* it may also begin with "~/"
Path(abs, parts) == [abs |-> abs, parts |-> parts]
Raw(tilde, abs, parts) == [tilde |-> tilde, abs |-> abs, parts |-> parts]
EmptyPath == Path(FALSE, <<>>)
NoPath == [some |-> FALSE, v |-> EmptyPath]
NoRaw == [some |-> FALSE, v |-> Raw(FALSE, FALSE, <<>>)]

\* shellexpand::tilde: a leading "~" becomes the home directory when there
\* is one, and stays a component named "~" when there is none
ExpandTilde(raw, home) ==
    IF raw.tilde
    THEN IF home.some
         THEN Path(home.v.abs, home.v.parts \o raw.parts)
         ELSE Path(FALSE, <<"~">> \o raw.parts)
    ELSE Path(raw.abs, raw.parts)

\* Path::join: an absolute argument replaces the base
Join(dir, path) ==
    IF path.abs THEN path ELSE Path(dir.abs, dir.parts \o path.parts)

\* Path::parent: the path without its last component, None for "/" and ""
Parent(path) ==
    IF path.parts = <<>>
    THEN NoPath
    ELSE Some(Path(path.abs, SubSeq(path.parts, 1, Len(path.parts) - 1)))

\* a resolution that leaves a relative path as it is
ResolvePathFromCwd(raw, base_dir, home) == ExpandTilde(raw, home)

\* resolve_path (lines 76-86)
ResolvePath(raw, base_dir, home) ==
    IF ExpandTilde(raw, home).abs
    THEN ExpandTilde(raw, home)
    ELSE IF base_dir.some
    THEN Join(base_dir.v, ExpandTilde(raw, home))
    ELSE ExpandTilde(raw, home)

\* inputs of load: the override, the directories of the environment, the
\* state of the file at the config path and what the file says
CfgOverrides ==
    {NoRaw,
     Some(Raw(FALSE, TRUE, <<"etc", "hpcd", "hpcd.toml">>)),
     Some(Raw(FALSE, FALSE, <<"config", "hpcd.toml">>)),
     Some(Raw(FALSE, FALSE, <<"hpcd.toml">>)),
     Some(Raw(TRUE, FALSE, <<"hpcd.toml">>))}
CfgDatabasePaths ==
    {NoRaw,
     Some(Raw(FALSE, FALSE, <<"db", "hpcd.sqlite">>)),
     Some(Raw(FALSE, TRUE, <<"var", "hpcd.sqlite">>)),
     Some(Raw(TRUE, FALSE, <<"hpcd.sqlite">>)),
     Some(Raw(FALSE, FALSE, <<>>))}
CfgIntervals == {NoCode, Some(0), Some(9)}
CfgFiles ==
    {[state |-> st, database_path |-> NoRaw, job_check_interval_secs |-> NoCode] :
        st \in {"missing", "unreadable", "malformed"}}
    \cup {[state |-> "ok", database_path |-> d, job_check_interval_secs |-> i] :
             d \in CfgDatabasePaths, i \in CfgIntervals}
CfgHomes == {NoPath, Some(Path(TRUE, <<"home", "u">>))}
CfgConfigDirs == {NoPath, Some(Path(TRUE, <<"home", "u", ".config">>))}
CfgDataDirs == {NoPath, Some(Path(TRUE, <<"home", "u", ".local", "share">>))}

\* the FileConfig of a file that does not exist: FileConfig::default()
DefaultFileConfig == [database_path |-> NoRaw, job_check_interval_secs |-> NoCode]
NoConfig ==
    [t |-> "none", database_path |-> EmptyPath, job_check_interval_secs |-> 0,
     config_path |-> EmptyPath]
CfgErr == [NoConfig EXCEPT !.t = "Err"]

\* a call load(config_path_override) that has not started
CfgCall(override, file, home, config_dir, data_dir) ==
    [pc |-> "load", override |-> override, file |-> file, home |-> home,
     config_dir |-> config_dir, data_dir |-> data_dir, config_path |-> EmptyPath,
     required |-> FALSE, file_config |-> DefaultFileConfig, result |-> NoConfig]

\* lines 30-33: the override after expand_path, or the default config path
CfgLocate ==
    /\ cfg.pc = "load"
    /\ IF cfg.override.some
       THEN cfg' = [cfg EXCEPT !.pc = "located",
                               !.config_path = ExpandTilde(cfg.override.v, cfg.home),
                               !.required = TRUE]
       ELSE IF cfg.config_dir.some
       THEN cfg' = [cfg EXCEPT !.pc = "located",
                               !.config_path =
                                   Join(Join(cfg.config_dir.v, Path(FALSE, <<APP_DIR_NAME>>)),
                                        Path(FALSE, <<CONFIG_FILE_NAME>>))]
       ELSE cfg' = [cfg EXCEPT !.pc = "returned", !.result = CfgErr]
    /\ UNCHANGED <<sessionVars, cli, dns, managers>>

\* read_config_file (lines 62-74)
CfgRead ==
    /\ cfg.pc = "located"
    /\ IF cfg.file.state = "missing"
       THEN IF cfg.required
            THEN cfg' = [cfg EXCEPT !.pc = "returned", !.result = CfgErr]
            ELSE cfg' = [cfg EXCEPT !.pc = "read", !.file_config = DefaultFileConfig]
       ELSE IF cfg.file.state \in {"unreadable", "malformed"}
       THEN cfg' = [cfg EXCEPT !.pc = "returned", !.result = CfgErr]
       ELSE cfg' = [cfg EXCEPT
               !.pc = "read",
               !.file_config =
                   [database_path |-> cfg.file.database_path,
                    job_check_interval_secs |-> cfg.file.job_check_interval_secs]]
    /\ UNCHANGED <<sessionVars, cli, dns, managers>>

\* `unwrap_or(DEFAULT_JOB_CHECK_INTERVAL_SECS)` (lines 43-45)
IntervalOf(opt) == IF opt.some THEN opt.v ELSE DEFAULT_JOB_CHECK_INTERVAL_SECS

\* lines 36-47: the database path and the Config
CfgBuild ==
    /\ cfg.pc = "read"
    /\ IF ~cfg.file_config.database_path.some /\ ~cfg.data_dir.some
       THEN cfg' = [cfg EXCEPT !.pc = "returned", !.result = CfgErr]
       ELSE cfg' = [cfg EXCEPT
               !.pc = "returned",
               !.result =
                   [t |-> "Ok",
                    database_path |->
                        IF cfg.file_config.database_path.some
                        THEN ResolvePath(cfg.file_config.database_path.v,
                                         Parent(cfg.config_path), cfg.home)
                        ELSE Join(Join(cfg.data_dir.v, Path(FALSE, <<APP_DIR_NAME>>)),
                                  Path(FALSE, <<DATABASE_FILE_NAME>>)),
                    job_check_interval_secs |->
                        IntervalOf(cfg.file_config.job_check_interval_secs),
                    config_path |-> cfg.config_path]]
    /\ UNCHANGED <<sessionVars, cli, dns, managers>>

InitConfig ==
    /\ SessionIdle
    /\ cli = NoCli
    /\ dns = NoDns
    /\ managers = NoManagers
    /\ cfg \in {CfgCall(o, f, h, c, d) :
                    o \in CfgOverrides, f \in CfgFiles, h \in CfgHomes,
                    c \in CfgConfigDirs, d \in CfgDataDirs}

NextConfig ==
    \/ CfgLocate
    \/ CfgRead
    \/ CfgBuild

SpecConfig == InitConfig /\ [][NextConfig]_vars

\* load returned a Config and the file named a database path
CfgNamed ==
    /\ cfg.pc = "returned" /\ cfg.result.t = "Ok"
    /\ cfg.file.state = "ok" /\ cfg.file.database_path.some

\* C21: when load returns a Config and the file gives a database_path, the
\* path, after tilde expansion, is returned as it is when absolute and is
\* appended to the config file's directory when relative; whenever load
\* returns a Config its job_check_interval_secs is the file's value when the
\* file gives one and 5 otherwise.
C21_LoadResolves ==
    /\ CfgNamed =>
          LET given == ExpandTilde(cfg.file.database_path.v, cfg.home)
              dir == SubSeq(cfg.result.config_path.parts, 1,
                            Len(cfg.result.config_path.parts) - 1)
          IN  /\ cfg.result.config_path.parts # <<>>
              /\ given.abs => cfg.result.database_path = given
              /\ ~given.abs =>
                    /\ cfg.result.database_path.parts = dir \o given.parts
                    /\ cfg.result.database_path.abs = cfg.result.config_path.abs
    /\ cfg.pc = "returned" /\ cfg.result.t = "Ok" =>
          cfg.result.job_check_interval_secs =
              IF cfg.file.state = "ok" /\ cfg.file.job_check_interval_secs.some
              THEN cfg.file.job_check_interval_secs.v
              ELSE 5

\* the file config/hpcd.toml names db/hpcd.sqlite and an interval of 9
C21_Witness ==
    /\ CfgNamed
    /\ cfg.result.config_path = Path(FALSE, <<"config", "hpcd.toml">>)
    /\ cfg.result.database_path = Path(FALSE, <<"config", "db", "hpcd.sqlite">>)
    /\ cfg.result.job_check_interval_secs = 9

\* ------------------------------------------------------------ the event channel
\* the caller holds the receiving end of evt_tx as a stream
\* (receiver_to_stream) and takes the oldest event in the channel
EvtRead(c) ==
    /\ evt_rx[c].mode = "reading"
    /\ Buffered(c) > 0
    /\ evt_rx' = [evt_rx EXCEPT ![c].read = @ + 1]
    /\ UNCHANGED <<sessVars, lockVars, clientVars, kiVars, execVars, argVars, recVars, chanLog,
                   taskLock, toolVars, pc, conn, net, events, result>>

\* the caller drops the stream while its call is under way: the events in
\* the channel are lost with it
EvtClose(c) ==
    /\ evt_rx[c].mode = "reading"
    /\ pc[c] \notin {"idle", "done"}
    /\ evt_rx' = [evt_rx EXCEPT ![c].mode = "gone", ![c].at = pc[c]]
    /\ UNCHANGED <<sessVars, lockVars, clientVars, kiVars, execVars, argVars, recVars, chanLog,
                   taskLock, toolVars, pc, conn, net, events, result>>

\* the events the caller has received
Delivered(c) ==
    IF evt_rx[c].mode = "prompt" THEN events[c] ELSE SubSeq(events[c], 1, evt_rx[c].read)

\* SpecPump: one call whose caller reads the events at its own pace and may
\* drop the stream, with every sequence of up to MaxMsgs channel messages of
\* the kinds the loop tells apart
PumpMsgs == {m \in ChanMsgs : m.t \in {"Data", "ExtendedData", "Close", "None"}
                              \/ (m.t = "ExitStatus" /\ m.v = 0)}

InitPump == InitUsedAs("reading")

NextPump ==
    \/ \E c \in First : Start(c, LS)
    \/ \E c \in First : EnsureCheck(c)
    \/ \E c \in First : EnsureTaskLock(c)
    \/ \E c \in First : EnsureReturn(c)
    \/ \E c \in First : ConnectFail(c)
    \/ \E c \in First, keyOk \in BOOLEAN : ConnectOk(c, keyOk)
    \/ \E c \in First, r \in PubkeyResults : PubkeyDone(c, r)
    \/ \E c \in First : KiStartFail(c)
    \/ \E c \in First, r \in SessKi : KiStartDone(c, r)
    \/ \E c \in First : KiRecv(c)
    \/ \E c \in First : KiRespondFail(c)
    \/ \E c \in First, r \in SessKi : KiRespondDone(c, r)
    \/ \E c \in First : ExecLock(c)
    \/ \E c \in First, ok \in BOOLEAN : ExecOpen(c, ok)
    \/ \E c \in First, ok \in BOOLEAN : ExecRequest(c, ok)
    \/ \E c \in First, m \in PumpMsgs : ExecWait(c, m)
    \/ \E c \in First : ExecTidy(c)
    \/ \E c \in First : RpcFinish(c)
    \/ \E k \in Conns : KaTick(k)
    \/ \E k \in Conns : KaCheck(k)
    \/ \E k \in Conns : KaRelock(k)
    \/ \E k \in Conns : KaProbe(k)
    \/ \E k \in Conns : CloseConn(k)
    \/ \E c \in First : Challenged(c) /\ nsent[c] < 1 /\ ClientAnswer(c, 1)
    \/ \E c \in First : Challenged(c) /\ ClientClose(c)
    \/ \E c \in First : EvtRead(c)
    \/ \E c \in First : EvtClose(c)

SpecPump == InitPump /\ [][NextPump]_vars

IsOutput(e) == e.t \in {"Stdout", "Stderr"}
Outputs(evs) == SelectSeq(evs, IsOutput)

\* the output events a sequence of channel messages calls for: Stdout for a
\* Data message, Stderr for extended data of type 1, each with the message's
\* position
IsChunk(m) == m.t = "Data" \/ (m.t = "ExtendedData" /\ m.v = 1)
IsMarked(x) == x.t # "skip"
Expected(log) ==
    SelectSeq([i \in 1..Len(log) |->
                  IF log[i].t = "Data" THEN Event("Stdout", i)
                  ELSE IF IsChunk(log[i]) THEN Event("Stderr", i)
                  ELSE Event("skip", i)],
              IsMarked)

\* C22: while the caller keeps reading, the output events put on the channel
\* are exactly the stdout and stderr chunks the channel has yielded, one event
\* per chunk in arrival order, the caller has received a prefix of them, and
\* the channel never holds more than its capacity: the pump waits for room
C22_PumpForwardsInOrder ==
    \A c \in Calls :
       evt_rx[c].mode = "reading" =>
          /\ Outputs(events[c]) = Expected(chanLog[c])
          /\ Len(events[c]) - evt_rx[c].read \in 0..EvtCapacity
          /\ IsPrefix(Outputs(Delivered(c)), Expected(chanLog[c]))

\* the pump waits on a full channel with a chunk delivered before, and the
\* chunks of both streams reach a caller that reads
C22_Witness ==
    \E c \in Calls :
       /\ evt_rx[c].mode = "reading"
       /\ pc[c] = "done"
       /\ Len(Outputs(Delivered(c))) > EvtCapacity
       /\ \E i, j \in 1..Len(Delivered(c)) :
             i < j /\ Delivered(c)[i].t = "Stderr" /\ Delivered(c)[j].t = "Stdout"

\* C23: once the caller has dropped the receiving end, the caller receives
\* nothing more, the loop takes every further channel message without
\* waiting for the channel, a call whose command was started returns no
\* error, and a call that has returned holds no place at the handle lock
C23_ClosedChannelIsHarmless ==
    /\ [](\A c \in Calls :
             evt_rx[c].mode = "gone" =>
                /\ pc[c] = "ex_loop" =>
                      \A m \in PumpMsgs :
                         (EndsLoop(m) \/ nmsg[c] < MaxMsgs) => ENABLED ExecWait(c, m)
                /\ execSent[c] # NotAllowed => result[c] \in {"none", "Ok"}
                /\ pc[c] \in {"ret", "done"} =>
                      lockHolder # c /\ \A i \in 1..Len(lockQueue) : lockQueue[i] # c)
    /\ [][\A c \in Calls : evt_rx[c].mode = "gone" => evt_rx'[c] = evt_rx[c]]_vars

\* the caller went away while the command was running, the loop went on
\* sending into the closed channel, and the call returned Ok
C23_Witness ==
    \E c \in Calls :
       /\ evt_rx[c].mode = "gone"
       /\ evt_rx[c].at = "ex_loop"
       /\ Len(events[c]) - evt_rx[c].read > EvtCapacity
       /\ pc[c] = "done"
       /\ result[c] = "Ok"
       /\ lockHolder # c

\* ------------------------------------------------------------ progress
\* the answers of the remote side in SpecLive: one way for each step to
\* succeed and one for it to fail
LivePubkey == {r \in PubkeyResults : r.t = "Success" \/ (r.t = "Failure" /\ r.partial /\ r.kiListed)}
LiveMsgs == {m \in ChanMsgs : m.t = "Close"}
LiveKi == {r \in KiResponses : r.t # "InfoRequest"}

\* every step of call c after its arrival, with the answers of the remote
\* side and of the client that the step waits for
CallStep(c) ==
    \/ EnsureCheck(c)
    \/ EnsureTaskLock(c)
    \/ EnsureReturn(c)
    \/ ConnectFail(c)
    \/ ConnectOk(c, TRUE)
    \/ \E r \in LivePubkey : PubkeyDone(c, r)
    \/ \E r \in SessKi : KiStartDone(c, r)
    \/ KiRecv(c)
    \/ \E r \in LiveKi : KiRespondDone(c, r)
    \/ ExecLock(c)
    \/ \E ok \in BOOLEAN : ExecOpen(c, ok)
    \/ ExecRequest(c, TRUE)
    \/ \E m \in LiveMsgs : ExecWait(c, m)
    \/ ExecTidy(c)
    \/ RpcFinish(c)
    \/ Challenged(c) /\ nsent[c] < 1 /\ ClientAnswer(c, 1)
    \/ Challenged(c) /\ ClientClose(c)

\* every step of the keep-alive task of connection k (lines 135-149)
KaStep(k) == KaTick(k) \/ KaCheck(k) \/ KaRelock(k) \/ KaProbe(k)

\* the runtime polls every task that can go on, the ticker fires, and the
\* remote side and the clients answer what a call waits for
Fairness ==
    /\ \A c \in Calls : WF_vars(CallStep(c))
    /\ \A k \in Conns : WF_vars(KaStep(k))

\* SpecLive: NumCalls concurrent calls, the keep-alive loops and connection
\* loss, in the behaviours in which every task goes on
NextLive ==
    \/ \E c \in Calls : Start(c, LS)
    \/ \E c \in Calls : CallStep(c)
    \/ \E k \in Conns : KaStep(k)
    \/ \E k \in Conns : CloseConn(k)

\* a SessionManager built with an identity path: public key first, then
\* keyboard-interactive when the server asks for it
InitLive == Init /\ identity

SpecLive == InitLive /\ [][NextLive]_vars /\ Fairness

\* the keep-alive task of connection k has been spawned and has not ended
Looping(k) == kaPc[k] \notin {"none", "exited"}

\* C24: a keep-alive loop whose connection is closed eventually exits, also
\* when the session has reconnected in the meantime
C24_LoopExitsAfterClose ==
    \A k \in Conns : (Looping(k) /\ connClosed[k]) ~> (kaPc[k] = "exited")

\* C25: a call that opened an execution channel has closed it (eof, then
\* close) by the time it returns, however the call ended
C25_ChannelClosedOnReturn ==
    \A c \in Calls :
       (pc[c] \in {"ret", "done"} /\ chan[c] # "none") => chan[c] = "closed"

\* call c connected and its authentication ended in Success, by public key
\* or by keyboard-interactive
AuthSucceeded(c) ==
    conn[c] # 0 /\ (pubkey[c].t = "Success" \/ ki[c].t = "Success")

\* C26: the stored handle and every keep-alive task belong to a connection
\* whose authentication succeeded, and a call that returns an error of
\* ensure_connected leaves the handle field, the keep-alive tasks and the
\* stored JoinHandle as they were
C26_StoredOnlyWhenAuthenticated ==
    /\ [](/\ handle # 0 => \E c \in Calls : conn[c] = handle /\ AuthSucceeded(c)
          /\ \A k \in Conns :
                kaPc[k] # "none" \/ keepalive_task_handle = k =>
                   \E c \in Calls : conn[c] = k /\ AuthSucceeded(c))
    /\ [][\A c \in Calls :
             result[c] = "none" /\ result'[c] \in AuthErrors =>
                <<handle, keepalive_task_handle, kaPc>>' =
                   <<handle, keepalive_task_handle, kaPc>>]_vars

\* a reconnect failed after its transport connect: the handle field still
\* holds the earlier, closed connection
C26_Witness ==
    \E c \in Calls :
       /\ result[c] \in AuthErrors \ {"Connect"}
       /\ conn[c] # 0
       /\ handle # 0 /\ handle # conn[c] /\ connClosed[handle]
       /\ keepalive_task_handle = handle

\* C27: while a call is between channel open and channel close neither the
\* closed-check nor the probe of any keep-alive loop can run, and while a
\* loop holds the lock for its probe no call can open a channel
C27_KeepAliveExcludesExec ==
    \A c \in Calls, k \in Conns :
       /\ InExec(c) => ~ENABLED KaCheck(k) /\ ~ENABLED KaProbe(k)
       /\ (kaPc[k] = "probe" /\ lockHolder = KA(k)) =>
             \A ok \in BOOLEAN : ~ENABLED ExecOpen(c, ok)

\* a command is running while a keep-alive loop, its tick fired, waits for
\* the lock, and another loop waits to send its probe
C27_Witness ==
    \E c \in Calls, k, j \in Conns :
       /\ pc[c] = "ex_loop"
       /\ kaPc[k] = "check" /\ Waiting(KA(k))
       /\ kaPc[j] = "probe" /\ Waiting(KA(j))

\* the tasks that take the handle mutex: the calls and the keep-alive loops
Tasks == Calls \cup {KA(k) : k \in Conns}

\* C28: the keepalive_task_handle mutex is only ever held by the holder of
\* the handle mutex and is free whenever a call asks for it; and when every
\* task is scheduled and the remote side and the clients answer, a task that
\* waits for the handle mutex gets it and every call that has arrived returns
C28_NoDeadlock ==
    /\ [](/\ taskLock # NoTask => lockHolder = taskLock
          /\ \A c \in Calls : pc[c] = "ec_spawned" => ENABLED EnsureTaskLock(c))
    /\ \A t \in Tasks : Waiting(t) ~> (lockHolder = t)
    /\ \A c \in Calls : (pc[c] # "idle") ~> (pc[c] = "done")

\* two calls wait for the handle mutex behind a keep-alive loop's probe while
\* another loop is running
C28_Witness ==
    \E c, d \in Calls, k, j \in Conns :
       /\ c # d /\ k # j
       /\ lockHolder = KA(k) /\ kaPc[k] = "probe"
       /\ Waiting(c) /\ Waiting(d)
       /\ Looping(j)
====
